---- MODULE Spec2Model ----
(***************************************************************************)
(* The History-API services as state machines.                             *)
(*                                                                         *)
(*   riwayat.js   HISTORY (primary key email) and MESSAGE (foreign key     *)
(*                email -> HISTORY.email), one MESSAGE row per message     *)
(*   history.js   one table history (primary key id), the message fields   *)
(*                of a row are overwritten                                 *)
(*   part_001     two revisions of the capstone service: soundboards,      *)
(*                id-keyed history, profile, feedback                      *)
(*                                                                         *)
(* A handler is cut at its awaited calls: one action per database or       *)
(* upstream call, taken together with the code that runs up to the next    *)
(* call (validation, uuidv4(), new Date(), the response).  Between two     *)
(* calls of one request any other request may run.  Database calls fail    *)
(* only where a declared constraint (primary key, foreign key, NOT NULL)   *)
(* rejects the statement or the statement does not parse; upstream calls   *)
(* (text-to-speech, object store) may fail at any time.  The tables of the *)
(* raw SQL statements have the columns the statements name.                *)
(***************************************************************************)
EXTENDS Integers, Sequences, FiniteSets, TLC

\* ---------------------------------------------------------------- bounds
MaxRequests == 3    \* requests the service accepts in one behaviour

Slots == {1, 2}     \* the requests in flight at once
Dates == {0, 1}     \* the readings of new Date(): the clock may stand still
                    \* between two requests, or advance

\* ------------------------------------------------------- request inputs
NULL == "null"
UNDEFINED == "undefined"
Emails == {"a", "b"}
Titles == {"t"}
Messages == {"m1", "m2"}
SttValues == {"true", "false"}
EmailInputs == Emails \cup {""}
TitleInputs == Titles \cup {""}
MessageInputs == Messages \cup {""}
SttInputs == SttValues \cup {NULL, UNDEFINED}
Texts == {"halo"}
TextInputs == Texts \cup {""}
Comments == {"bagus"}
Names == {"ani", "budi"}
NameInputs == Names \cup {""}
CommentInputs == Comments \cup {""}
\* a body without rating takes the branches of rating 0: !undefined is !0
Ratings == (0 - 1)..6

\* JavaScript's !v on the values a JSON body carries
Falsy(v) == v \in {"", NULL, UNDEFINED}

VARIABLES
    app,        \* the service that is deployed: "riwayat", "history", or
                \* one of the two revisions in part_001
    NODE_ENV,   \* process.env.NODE_ENV
    HISTORY,    \* riwayat.js: table HISTORY
    MESSAGE,    \* riwayat.js: table MESSAGE
    history,    \* history.js, part_001: table history
    req,        \* per slot: the request in flight, where its handler stands
    resp,       \* the response sent last
    now,        \* the clock new Date() reads
    accepted,   \* requests accepted so far
    Soundboard, \* part_001: table of the Soundboard model
    bucket,     \* part_001: the objects of the storage bucket, by file name
    profile,    \* part_001: table profile
    feedback    \* part_001: table feedback

\* the tables and the bucket of part_001
Capstone == <<Soundboard, bucket, profile, feedback>>

vars == <<app, NODE_ENV, HISTORY, MESSAGE, history, req, resp, now, accepted,
          Capstone>>

\* ------------------------------------------------------------ responses
\* message is the text of the body's message field, or of its status field
\* where the body carries its text there; the email a text interpolates is
\* the field email
NoData == [kind |-> "none"]
NoRow == [id |-> 0, title |-> "", message |-> NULL, is_speech_to_text |-> NULL,
          email |-> "", created_at |-> 0]

NoFileName == [uuid |-> 0, ext |-> ""]

\* null where the other values are URLs
NullUrl == [base |-> NULL]

Idle == [pc |-> "idle", email |-> "", title |-> "", message |-> "",
         is_speech_to_text |-> UNDEFINED, id |-> 0, created_at |-> 0,
         inst |-> NoRow, changed |-> {}, calls |-> <<>>,
         text |-> "", fileName |-> NoFileName, audioUrl |-> NullUrl,
         name |-> "", profilePictureUrl |-> NullUrl]

Response(op, email, status, message, error, data, calls) ==
    [op |-> op, email |-> email, status |-> status, message |-> message,
     error |-> error, data |-> data, calls |-> calls]

NoResponse == Response("none", "", 0, "", "", NoData, <<>>)

\* history.js: the error handling middleware that next(error) reaches
ErrorMiddleware(err) ==
    IF err.name = "MulterError"
    THEN [status |-> 400, message |-> "File upload error", error |-> err.message]
    ELSE IF err.name = "SequelizeValidationError"
    THEN [status |-> 400, message |-> "Validation error", error |-> ""]
    ELSE [status |-> 500, message |-> "Internal server error",
          error |-> IF NODE_ENV = "development" THEN err.message
                    ELSE "Something went wrong"]

\* riwayat.js: every handler's catch block
CatchRiwayat(err) ==
    [status |-> 500, message |-> err.message, error |-> ""]

HandleError(err) ==
    IF app = "riwayat" THEN CatchRiwayat(err) ELSE ErrorMiddleware(err)

Error(name, message) == [name |-> name, message |-> message]

\* ------------------------------------------------------------- database
WhereEmail(table, email) == {r \in table : r.email = email}

\* if (existingHistory): what findOne returned is a row, not null
Found_Always(rows) == TRUE

Found(rows) == rows # {}

\* riwayat.js: HISTORY.email is the primary key
HistoryPrimaryKeyFree_NoKey(email) == TRUE

HistoryPrimaryKeyFree(email) == WhereEmail(HISTORY, email) = {}

\* riwayat.js: Message.belongsTo(History, { foreignKey: 'email' }) makes
\* MESSAGE.email reference HISTORY.email (ON DELETE NO ACTION, the column is
\* NOT NULL)
MessageForeignKeyOk_NoKey(email) == TRUE

MessageForeignKeyOk(email) == WhereEmail(HISTORY, email) # {}
HistoryUnreferenced(email) == WhereEmail(MESSAGE, email) = {}

\* history.js: every column of the History model is allowNull: false
HistoryNotNullOk(row) ==
    /\ row.message # NULL
    /\ row.is_speech_to_text # NULL

DestroyWhereEmail_All(table, email) == {}

\* Model.destroy({ where: { email } })
DestroyWhereEmail(table, email) == table \ WhereEmail(table, email)

UpdateChanged_NoWhere(table, inst, changed) ==
    {[f \in DOMAIN r |-> IF f \in changed THEN inst[f] ELSE r[f]] : r \in table}

\* instance.save(): UPDATE ... SET <the changed fields> WHERE id = <pk>
UpdateChanged(table, inst, changed) ==
    {IF r.id = inst.id
     THEN [f \in DOMAIN r |-> IF f \in changed THEN inst[f] ELSE r[f]]
     ELSE r : r \in table}

ChangedFields(old, new) == {f \in DOMAIN old : old[f] # new[f]}

\* uuidv4(): a value that no row and no request in flight holds
UsedIds ==
    {r.id : r \in HISTORY} \cup {r.message_id : r \in MESSAGE}
      \cup {r.id : r \in history}
      \cup {req[q].id : q \in Slots} \cup {req[q].inst.id : q \in Slots}
      \cup {r.id : r \in Soundboard} \cup {r.fileName.uuid : r \in Soundboard}
      \cup {req[q].fileName.uuid : q \in Slots}

uuidv4 == CHOOSE i \in 1..(Cardinality(UsedIds) + 1) :
              /\ i \notin UsedIds
              /\ \A j \in 1..(i - 1) : j \in UsedIds

\* -------------------------------------------------------------- replies
\* resp is the response the step just taken sent, if it sent one
Silent == resp' = NoResponse

\* the slots are interchangeable: a request takes the lowest free one
Free(p) ==
    /\ accepted < MaxRequests
    /\ accepted' = accepted + 1
    /\ req[p].pc = "idle"
    /\ \A q \in Slots : q < p => req[q].pc # "idle"

Reply(p, r) ==
    /\ resp' = r
    /\ req' = [req EXCEPT ![p] = Idle]

Fail(p, op, email, err, calls) ==
    LET e == HandleError(err) IN
    Reply(p, Response(op, email, e.status, e.message, e.error, NoData, calls))

\* --------------------------------------------- POST /api/history/email
\* validation, then the existence check and what follows it up to the INSERT
CreateIdentity(p, email, title) ==
    /\ Free(p)
    /\ IF Falsy(email) \/ Falsy(title)
       THEN /\ Reply(p, Response("createIdentity", email, 400,
                        IF app = "riwayat" THEN "Email dan title harus diisi"
                        ELSE "Title dan email harus diisi", "", NoData, <<>>))
       ELSE IF WhereEmail(IF app = "riwayat" THEN HISTORY ELSE history, email) # {}
            THEN /\ Reply(p, Response("createIdentity", email, 400,
                             "Email sudah terdaftar", "", NoData, <<"select">>))
                 ELSE /\ req' = [req EXCEPT ![p] =
                        [Idle EXCEPT !.pc = "ci_insert", !.email = email,
                                     !.title = title, !.id = uuidv4,
                                     !.created_at = now, !.calls = <<"select">>]]
                 /\ Silent
    /\ UNCHANGED <<app, NODE_ENV, Capstone, HISTORY, MESSAGE, history, now>>

\* riwayat.js: History.create({ email, id, title })
CreateIdentityInsertRiwayat(p) ==
    LET r == req[p]
        row == [email |-> r.email, id |-> r.id, title |-> r.title]
        calls == Append(r.calls, "insert")
    IN  /\ app = "riwayat"
        /\ r.pc = "ci_insert"
        /\ IF HistoryPrimaryKeyFree(r.email)
           THEN /\ HISTORY' = HISTORY \cup {row}
                /\ Reply(p, Response("createIdentity", r.email, 201,
                            "Data History berhasil dibuat", "",
                            [kind |-> "row", row |-> row], calls))
           ELSE /\ Fail(p, "createIdentity", r.email,
                        Error("SequelizeUniqueConstraintError", "Validation error"),
                        calls)
                /\ UNCHANGED HISTORY
        /\ UNCHANGED <<app, NODE_ENV, Capstone, MESSAGE, history, now, accepted>>

\* history.js: INSERT INTO history (...) VALUES (id, title, null, createdAt,
\* email, null)
CreateIdentityInsertHistory(p) ==
    LET r == req[p]
        row == [id |-> r.id, title |-> r.title, message |-> NULL,
                is_speech_to_text |-> NULL, email |-> r.email,
                created_at |-> r.created_at]
        calls == Append(r.calls, "insert")
    IN  /\ app = "history"
        /\ r.pc = "ci_insert"
        /\ IF HistoryNotNullOk(row)
           THEN /\ history' = history \cup {row}
                /\ Reply(p, Response("createIdentity", r.email, 201,
                            "success create data", "",
                            [kind |-> "row", row |-> row], calls))
           ELSE /\ Fail(p, "createIdentity", r.email,
                        Error("SequelizeDatabaseError",
                              "Column 'message' cannot be null"), calls)
                /\ UNCHANGED history
        /\ UNCHANGED <<app, NODE_ENV, Capstone, HISTORY, MESSAGE, now, accepted>>

\* --------------------------------------------- POST /api/history/:email
AttachValidationMessage == "Message dan is_speech_to_text harus diisi"

\* riwayat.js: validation, History.findOne, then uuidv4(), new Date() and
\* the validation Message.create runs before its INSERT
AttachMessageRiwayat(p, email, message, stt) ==
    /\ app = "riwayat"
    /\ Free(p)
    /\ IF Falsy(message) \/ stt = UNDEFINED
       THEN Reply(p, Response("attachMessage", email, 400,
                     AttachValidationMessage, "", NoData, <<>>))
       ELSE IF ~Found(WhereEmail(HISTORY, email))
       THEN Reply(p, Response("attachMessage", email, 404,
                     "History dengan email ${email} tidak ditemukan", "",
                     NoData, <<"select">>))
       ELSE IF stt = NULL
       THEN Fail(p, "attachMessage", email,
                 Error("SequelizeValidationError",
                       "Message.is_speech_to_text cannot be null"),
                 <<"select">>)
       ELSE /\ req' = [req EXCEPT ![p] =
                  [Idle EXCEPT !.pc = "am_create", !.email = email,
                               !.message = message, !.is_speech_to_text = stt,
                               !.id = uuidv4, !.created_at = now,
                               !.calls = <<"select">>]]
            /\ Silent
    /\ UNCHANGED <<app, NODE_ENV, Capstone, HISTORY, MESSAGE, history, now>>

\* riwayat.js: Message.create({ message_id, email, message, created_at,
\* is_speech_to_text })
AttachMessageCreate(p) ==
    LET r == req[p]
        row == [message_id |-> r.id, email |-> r.email, message |-> r.message,
                created_at |-> r.created_at,
                is_speech_to_text |-> r.is_speech_to_text]
        calls == Append(r.calls, "insert")
    IN  /\ app = "riwayat"
        /\ r.pc = "am_create"
        /\ IF MessageForeignKeyOk(r.email)
           THEN /\ MESSAGE' = MESSAGE \cup {row}
                /\ Reply(p, Response("attachMessage", r.email, 201,
                            "Data Message berhasil dibuat", "",
                            [kind |-> "row", row |-> row], calls))
           ELSE /\ Fail(p, "attachMessage", r.email,
                        Error("SequelizeForeignKeyConstraintError",
                              "a foreign key constraint fails"), calls)
                /\ UNCHANGED MESSAGE
        /\ UNCHANGED <<app, NODE_ENV, Capstone, HISTORY, history, now, accepted>>

\* history.js: validation, History.findOne, new Date(), the three
\* assignments, and what save() does before its UPDATE: it validates the
\* instance and returns at once when no field changed
AttachMessageHistory(p, email, message, stt) ==
    /\ app = "history"
    /\ Free(p)
    /\ IF Falsy(message) \/ stt = UNDEFINED
       THEN Reply(p, Response("attachMessage", email, 400,
                     AttachValidationMessage, "", NoData, <<>>))
       ELSE IF ~Found(WhereEmail(history, email))
            THEN Reply(p, Response("attachMessage", email, 404,
                          "Tidak ditemukan history dengan email ${email}", "",
                          NoData, <<"select">>))
            ELSE \E existingHistory \in WhereEmail(history, email) :
                 LET inst == [existingHistory EXCEPT
                                 !.message = message,
                                 !.is_speech_to_text = stt,
                                 !.created_at = now]
                     changed == ChangedFields(existingHistory, inst)
                 IN  IF ~HistoryNotNullOk(inst)
                     THEN Fail(p, "attachMessage", email,
                               Error("SequelizeValidationError",
                                     "History.is_speech_to_text cannot be null"),
                               <<"select">>)
                     ELSE IF changed = {}
                     THEN Reply(p, Response("attachMessage", email, 200,
                                   "success update data", "",
                                   [kind |-> "row", row |-> inst], <<"select">>))
                     ELSE /\ req' = [req EXCEPT ![p] =
                                [Idle EXCEPT !.pc = "am_save", !.email = email,
                                             !.inst = inst, !.changed = changed,
                                             !.calls = <<"select">>]]
                          /\ Silent
    /\ UNCHANGED <<app, NODE_ENV, Capstone, HISTORY, MESSAGE, history, now>>

\* history.js: existingHistory.save(), then the 200 response carrying the
\* instance the handler holds
AttachMessageSave(p) ==
    LET r == req[p] IN
    /\ app = "history"
    /\ r.pc = "am_save"
    /\ history' = UpdateChanged(history, r.inst, r.changed)
    /\ Reply(p, Response("attachMessage", r.email, 200, "success update data", "",
                [kind |-> "row", row |-> r.inst], Append(r.calls, "update")))
    /\ UNCHANGED <<app, NODE_ENV, Capstone, HISTORY, MESSAGE, now, accepted>>

\* ------------------------------------------- DELETE /api/history/:email
DeleteNotFound(p, email) ==
    Reply(p, Response("delete", email, 404,
                      IF app = "riwayat"
                      THEN "History dengan email ${email} tidak ditemukan"
                      ELSE "History untuk email ${email} tidak ditemukan", "",
                      NoData, <<"select">>))

\* History.findOne / History.findAll by email
DeleteHistory(p, email) ==
    /\ Free(p)
    /\ IF WhereEmail(IF app = "riwayat" THEN HISTORY ELSE history, email) = {}
       THEN DeleteNotFound(p, email)
       ELSE /\ req' = [req EXCEPT ![p] =
                  [Idle EXCEPT !.pc = IF app = "riwayat" THEN "del_messages"
                                      ELSE "del_history",
                               !.email = email, !.calls = <<"select">>]]
            /\ Silent
    /\ UNCHANGED <<app, NODE_ENV, Capstone, HISTORY, MESSAGE, history, now>>

\* riwayat.js: Message.destroy({ where: { email } })
DeleteMessages(p) ==
    LET r == req[p] IN
    /\ app = "riwayat"
    /\ r.pc = "del_messages"
    /\ MESSAGE' = DestroyWhereEmail(MESSAGE, r.email)
    /\ req' = [req EXCEPT ![p].pc = "del_history",
                          ![p].calls = Append(r.calls, "delete")]
    /\ Silent
    /\ UNCHANGED <<app, NODE_ENV, Capstone, HISTORY, history, now, accepted>>

\* History.destroy({ where: { email } }) and the 200 response
DeleteHistoryRows(p) ==
    LET r == req[p]
        calls == Append(r.calls, "delete")
        ok == Response("delete", r.email, 200,
                       IF app = "riwayat"
                       THEN "History dan message dengan email ${email} telah dihapus"
                       ELSE "History dengan Email ${email} telah dihapus", "",
                       NoData, calls)
    IN  /\ r.pc = "del_history"
        /\ IF app = "riwayat"
           THEN /\ IF HistoryUnreferenced(r.email)
                   THEN /\ HISTORY' = DestroyWhereEmail(HISTORY, r.email)
                        /\ Reply(p, ok)
                   ELSE /\ Fail(p, "delete", r.email,
                                Error("SequelizeForeignKeyConstraintError",
                                      "a foreign key constraint fails"), calls)
                        /\ UNCHANGED HISTORY
                /\ UNCHANGED history
           ELSE /\ history' = DestroyWhereEmail(history, r.email)
                /\ Reply(p, ok)
                /\ UNCHANGED HISTORY
        /\ UNCHANGED <<app, NODE_ENV, Capstone, MESSAGE, now, accepted>>

\* ------------------------------------------------ GET /api/history
\* SELECT ... ORDER BY created_at DESC: the rows, newest first; rows of one
\* created_at come in any order
OrderByCreatedAtDesc(table) ==
    {s \in [1..Cardinality(table) -> table] :
        /\ \A i, j \in DOMAIN s : i # j => s[i] # s[j]
        /\ \A i, j \in DOMAIN s : i < j => s[i].created_at >= s[j].created_at}

\* history.js: histories.map((history) => ({ ... }))
FormatHistory(row) ==
    [id |-> row.id, email |-> row.email, title |-> row.title,
     message |-> <<[text |-> row.message, created_at |-> row.created_at,
                    is_speech_to_text |-> row.is_speech_to_text]>>,
     detection_type |-> IF row.is_speech_to_text = "true" THEN "Speech to Text"
                        ELSE "Gesture Detection"]

\* history.js: GET /api/history
ListHistory(p) ==
    /\ app = "history"
    /\ Free(p)
    /\ IF history = {}
       THEN Reply(p, Response("listAll", "", 404, "History tidak ditemukan", "",
                     NoData, <<"select">>))
       ELSE \E histories \in OrderByCreatedAtDesc(history) :
               Reply(p, Response("listAll", "", 200, "success get data", "",
                        [kind |-> "list",
                         rows |-> [i \in DOMAIN histories |->
                                      FormatHistory(histories[i])]],
                        <<"select">>))
    /\ UNCHANGED <<app, NODE_ENV, Capstone, HISTORY, MESSAGE, history, now>>

\* ================================================================ part_001
\* part_001 holds two revisions of one service: lines 1-419 and 421-904
Revisions == {"capstone1", "capstone2"}

\* first revision: the catch block of each handler (the soundboard handlers
\* answer a fixed text, the others the error's message); second revision:
\* next(error), which reaches the middleware history.js also has
CatchCapstone(op, err) ==
    IF app = "capstone1"
    THEN IF op = "createSoundboard"
         THEN [status |-> 500, message |-> "",
               error |-> "Failed to create soundboard"]
         ELSE [status |-> 500, message |-> err.message, error |-> ""]
    ELSE ErrorMiddleware(err)

FailCapstone(p, op, err, calls) ==
    LET e == CatchCapstone(op, err) IN
    Reply(p, Response(op, "", e.status, e.message, e.error, NoData, calls))

PublicUrl_NoName(filename) ==
    [base |-> "https://storage.googleapis.com",
     bucket |-> "${process.env.GCP_BUCKET_NAME}", filename |-> NoFileName]

\* uploadToGCS: the public URL of a stored object
PublicUrl(filename) ==
    [base |-> "https://storage.googleapis.com",
     bucket |-> "${process.env.GCP_BUCKET_NAME}", filename |-> filename]

Threw_Never(ok) == FALSE

\* generateSpeech, uploadToGCS: the awaited upstream call rejected, and the
\* helper's catch block throws again
Threw(ok) == ~ok

\* ------------------------------------------------ POST /api/soundboards
\* validation, generateSpeech(text), then uuidv4() for the file name
CreateSoundboard(p, text, ok) ==
    /\ app \in Revisions
    /\ Free(p)
    /\ IF Falsy(text)
       THEN Reply(p, Response("createSoundboard", "", 400, "",
                     "Text is required", NoData, <<>>))
       ELSE IF Threw(ok)
       THEN FailCapstone(p, "createSoundboard",
                Error("Error", "Error generating speech: ${error.message}"),
                <<"synthesize">>)
       ELSE /\ req' = [req EXCEPT ![p] =
                  [Idle EXCEPT !.pc = "sb_upload", !.text = text,
                               !.fileName = [uuid |-> uuidv4, ext |-> "mp3"],
                               !.calls = <<"synthesize", "uuidv4">>]]
            /\ Silent
    /\ UNCHANGED <<app, NODE_ENV, Capstone, HISTORY, MESSAGE, history, now>>

\* uploadToGCS(audioBuffer, fileName)
CreateSoundboardUpload(p, ok) ==
    LET r == req[p]
        calls == Append(r.calls, "upload")
    IN  /\ r.pc = "sb_upload"
        /\ IF Threw(ok)
           THEN /\ FailCapstone(p, "createSoundboard",
                       Error("Error",
                         "Error uploading to Google Cloud Storage: ${error.message}"),
                       calls)
                /\ UNCHANGED bucket
           ELSE /\ bucket' = bucket \cup {r.fileName}
                /\ req' = [req EXCEPT ![p].pc = "sb_create",
                                      ![p].audioUrl = PublicUrl(r.fileName),
                                      ![p].calls = calls]
                /\ Silent
        /\ UNCHANGED <<app, NODE_ENV, HISTORY, MESSAGE, history, now, accepted,
                       Soundboard, profile, feedback>>

\* Soundboard.create({ text, audioUrl, fileName }) and the 201 response; the
\* model fills id (defaultValue UUIDV4) and createdAt
CreateSoundboardInsert(p) ==
    LET r == req[p]
        soundboard == [id |-> uuidv4, text |-> r.text, audioUrl |-> r.audioUrl,
                       fileName |-> r.fileName, createdAt |-> now]
    IN  /\ r.pc = "sb_create"
        /\ Soundboard' = Soundboard \cup {soundboard}
        /\ Reply(p, Response("createSoundboard", "", 201,
                    "Soundboard created successfully", "",
                    [kind |-> "row", row |-> soundboard],
                    Append(r.calls, "insert")))
        /\ UNCHANGED <<app, NODE_ENV, HISTORY, MESSAGE, history, now, accepted,
                       bucket, profile, feedback>>

\* ---------------------------------------------------- POST /api/feedback
\* JavaScript's !rating on a number
FalsyNumber(n) == n = 0

RatingOutOfRange_Wide(rating) == rating < 0 \/ rating > 5

\* if (rating < 1 || rating > 4)
RatingOutOfRange(rating) == rating < 1 \/ rating > 4

\* the id an AUTO_INCREMENT column gives the next row; no row of the table
\* is ever deleted
AutoIncrement(table) == Cardinality(table) + 1

\* validation, INSERT INTO feedback (comment, rating ...), the 201 response
CreateFeedback(p, comment, rating) ==
    /\ app \in Revisions
    /\ Free(p)
    /\ IF Falsy(comment) \/ FalsyNumber(rating)
       THEN /\ Reply(p, Response("createFeedback", "", 400,
                        "Komentar dan rating harus diisi", "", NoData, <<>>))
            /\ UNCHANGED feedback
       ELSE IF RatingOutOfRange(rating)
       THEN /\ Reply(p, Response("createFeedback", "", 400,
                        "Rating harus antara 1-4", "", NoData, <<>>))
            /\ UNCHANGED feedback
       ELSE LET result == AutoIncrement(feedback) IN
            /\ feedback' = feedback \cup
                   {[id |-> result, comment |-> comment, rating |-> rating,
                     created_at |-> now]}
            /\ Reply(p, Response("createFeedback", "", 201, "", "",
                        [kind |-> "row",
                         row |-> [id |-> result, comment |-> comment,
                                  rating |-> rating]],
                        <<"insert">>))
    /\ UNCHANGED <<app, NODE_ENV, HISTORY, MESSAGE, history, now,
                   Soundboard, bucket, profile>>

\* ---------------------------------------- part_001: POST /api/history
\* validation, the INSERT, the 201 response.  The second revision's
\* statement quotes its column names with [ ], which MySQL does not parse:
\* the query rejects
CreateHistoryCapstone(p, title, message) ==
    /\ app \in Revisions
    /\ Free(p)
    /\ IF Falsy(title) \/ Falsy(message)
       THEN /\ Reply(p, Response("createHistory", "", 400,
                        "Judul dan pesan harus diisi", "", NoData, <<>>))
            /\ UNCHANGED history
       ELSE IF app = "capstone2"
       THEN /\ FailCapstone(p, "createHistory",
                   Error("SequelizeDatabaseError",
                         "You have an error in your SQL syntax"), <<"insert">>)
            /\ UNCHANGED history
       ELSE LET result == AutoIncrement(history) IN
            /\ history' = history \cup
                   {[id |-> result, title |-> title, message |-> message,
                     created_at |-> now]}
            /\ Reply(p, Response("createHistory", "", 201, "", "",
                        [kind |-> "row",
                         row |-> [id |-> result, title |-> title,
                                  message |-> message]],
                        <<"insert">>))
    /\ UNCHANGED <<app, NODE_ENV, Capstone, HISTORY, MESSAGE, now>>

\* ----------------------------------------- part_001: GET /api/history
\* const [histories] = await sequelize.query(..., { type: SELECT }): the
\* query resolves to the array of rows, and the pattern binds its first
\* element; res.json leaves an undefined data out of the body
ListHistoryCapstone(p) ==
    /\ app \in Revisions
    /\ Free(p)
    /\ \E rows \in OrderByCreatedAtDesc(history) :
          LET histories == IF Len(rows) = 0 THEN NoData
                           ELSE [kind |-> "row", row |-> rows[1]]
          IN  Reply(p, Response("listAll", "", 200, "", "", histories,
                                <<"select">>))
    /\ UNCHANGED <<app, NODE_ENV, Capstone, HISTORY, MESSAGE, history, now>>

\* --------------------------------------- part_001: GET /api/history/:id
\* req.params.id: ids of rows, and ids no row has
IdInputs == 1..4

WhereId(table, id) == {r \in table : r.id = id}

\* const [history] = await sequelize.query("SELECT * FROM history WHERE id =
\* ?"): the first row, undefined when no row has the id
GetHistoryById(p, id) ==
    /\ app \in Revisions
    /\ Free(p)
    /\ IF WhereId(history, id) = {}
       THEN Reply(p, Response("getById", "", 404,
                     IF app = "capstone1" THEN "Tidak memiliki akses"
                     ELSE "History tidak ditemukan", "", NoData, <<"select">>))
       ELSE \E row \in WhereId(history, id) :
               Reply(p, Response("getById", "", 200, "", "",
                        [kind |-> "row", row |-> row], <<"select">>))
    /\ UNCHANGED <<app, NODE_ENV, Capstone, HISTORY, MESSAGE, history, now>>

\* ------------------------------------------------------ PUT /api/profile
\* limits: { fileSize: 5 * 1024 * 1024 }
fileSize == 5 * 1024 * 1024

allowedMimes == {"image/jpeg", "image/png", "image/jpg"}

\* req.file is undefined: the body carries no profile_picture
NoFile == [originalname |-> "", mimetype |-> "", size |-> 0]

Files ==
    {[originalname |-> "foto.png", mimetype |-> "image/png", size |-> 1024],
     [originalname |-> "foto.gif", mimetype |-> "image/gif", size |-> 1024],
     [originalname |-> "besar.png", mimetype |-> "image/png",
      size |-> fileSize + 1]}

FileInputs == Files \cup {NoFile}

\* `profiles/${Date.now()}-${req.file.originalname}`
ProfileFileName(file) ==
    [dir |-> "profiles", at |-> now, originalname |-> file.originalname]

\* UPDATE profile SET name = ? [, profile_picture_url = ?] [, updated_at =
\* NOW()] WHERE id = 1: the second revision sets updated_at
UpdateProfileWhereId1(name, profilePictureUrl) ==
    {IF r.id = 1
     THEN [r EXCEPT !.name = name,
                    !.profile_picture_url =
                        IF profilePictureUrl # NullUrl THEN profilePictureUrl
                        ELSE @,
                    !.updated_at = IF app = "capstone2" THEN now ELSE @]
     ELSE r : r \in profile}

UpdateProfileOk(name, profilePictureUrl, calls) ==
    Response("updateProfile", "", 200, "", "",
             [kind |-> "row",
              row |-> [name |-> name,
                       profile_picture_url |-> profilePictureUrl]], calls)

\* upload.single("profile_picture"), validation, then uploadToGCS when the
\* body carries a file, else the UPDATE and the response
UpdateProfile(p, name, file, ok) ==
    /\ app \in Revisions
    /\ Free(p)
    /\ IF file # NoFile /\ file.mimetype \notin allowedMimes
       THEN /\ FailCapstone(p, "updateProfile",
                   Error("Error",
                         IF app = "capstone1" THEN "File harus berupa gambar."
                         ELSE "File harus berupa gambar (JPG, JPEG, atau PNG)."),
                   <<>>)
            /\ UNCHANGED <<bucket, profile>>
       ELSE IF file # NoFile /\ file.size > fileSize
       THEN /\ FailCapstone(p, "updateProfile",
                   Error("MulterError", "File too large"), <<>>)
            /\ UNCHANGED <<bucket, profile>>
       ELSE IF Falsy(name)
       THEN /\ Reply(p, Response("updateProfile", "", 400, "Name is required",
                        "", NoData, <<>>))
            /\ UNCHANGED <<bucket, profile>>
       ELSE IF file = NoFile
       THEN /\ profile' = UpdateProfileWhereId1(name, NullUrl)
            /\ Reply(p, UpdateProfileOk(name, NullUrl, <<"update">>))
            /\ UNCHANGED bucket
       ELSE IF Threw(ok)
       THEN /\ FailCapstone(p, "updateProfile",
                   Error("Error",
                     "Error uploading to Google Cloud Storage: ${error.message}"),
                   <<"upload">>)
            /\ UNCHANGED <<bucket, profile>>
       ELSE /\ bucket' = bucket \cup {ProfileFileName(file)}
            /\ req' = [req EXCEPT ![p] =
                  [Idle EXCEPT !.pc = "up_update", !.name = name,
                               !.profilePictureUrl =
                                   PublicUrl(ProfileFileName(file)),
                               !.calls = <<"upload">>]]
            /\ Silent
            /\ UNCHANGED profile
    /\ UNCHANGED <<app, NODE_ENV, HISTORY, MESSAGE, history, now,
                   Soundboard, feedback>>

\* the UPDATE that follows an upload, and the response
UpdateProfileQuery(p) ==
    LET r == req[p] IN
    /\ r.pc = "up_update"
    /\ profile' = UpdateProfileWhereId1(r.name, r.profilePictureUrl)
    /\ Reply(p, UpdateProfileOk(r.name, r.profilePictureUrl,
                                Append(r.calls, "update")))
    /\ UNCHANGED <<app, NODE_ENV, HISTORY, MESSAGE, history, now, accepted,
                   Soundboard, bucket, feedback>>

\* GET /api/profile: SELECT * FROM profile LIMIT 1
GetProfile(p) ==
    /\ app \in Revisions
    /\ Free(p)
    /\ IF profile = {}
       THEN Reply(p, Response("getProfile", "", 404, "Profil tidak ditemukan",
                     "", NoData, <<"select">>))
       ELSE \E row \in profile :
               Reply(p, Response("getProfile", "", 200, "", "",
                        [kind |-> "row", row |-> row], <<"select">>))
    /\ UNCHANGED <<app, NODE_ENV, Capstone, HISTORY, MESSAGE, history, now>>

Tick ==
    /\ now + 1 \in Dates
    /\ now' = now + 1
    /\ Silent
    /\ UNCHANGED <<app, NODE_ENV, Capstone, HISTORY, MESSAGE, history, req, accepted>>

\* ---------------------------------------------------------- the machine
SeedId(email) == IF email = "a" THEN 101 ELSE IF email = "b" THEN 102 ELSE 103

\* history.js cannot insert a row by itself (its INSERT names NULL for two
\* NOT NULL columns); the rows it updates, lists and deletes are the rows the
\* table holds when the service starts: sync() keeps an existing table
SeedRow(email) ==
    [id |-> SeedId(email), title |-> "t", message |-> "m1",
     is_speech_to_text |-> "false", email |-> email, created_at |-> 0]

Init ==
    /\ app \in {"riwayat", "history"}
    /\ NODE_ENV \in {"development", "production"}
    /\ HISTORY = {}
    /\ MESSAGE = {}
    /\ \E es \in SUBSET Emails :
          history = IF app = "history" THEN {SeedRow(e) : e \in es} ELSE {}
    /\ req = [p \in Slots |-> Idle]
    /\ resp = NoResponse
    /\ now = 0
    /\ accepted = 0
    /\ Soundboard = {}
    /\ bucket = {}
    /\ profile = {}
    /\ feedback = {}

\* a request arrives and runs to its first database call
Accept ==
    \/ \E p \in Slots, email \in EmailInputs, title \in TitleInputs :
          CreateIdentity(p, email, title)
    \/ \E p \in Slots, email \in Emails, message \in MessageInputs,
          stt \in SttInputs : AttachMessageRiwayat(p, email, message, stt)
    \/ \E p \in Slots, email \in Emails, message \in MessageInputs,
          stt \in SttInputs : AttachMessageHistory(p, email, message, stt)
    \/ \E p \in Slots, email \in Emails : DeleteHistory(p, email)
    \/ \E p \in Slots : ListHistory(p)

\* a request in flight makes its next database call
Continue ==
    \/ \E p \in Slots : CreateIdentityInsertRiwayat(p)
    \/ \E p \in Slots : CreateIdentityInsertHistory(p)
    \/ \E p \in Slots : AttachMessageCreate(p)
    \/ \E p \in Slots : AttachMessageSave(p)
    \/ \E p \in Slots : DeleteMessages(p)
    \/ \E p \in Slots : DeleteHistoryRows(p)

Next == Accept \/ Continue \/ Tick

Spec == Init /\ [][Next]_vars

\* ---------------------------------------------------- part_001 machines
\* what the routes of part_001 share at start; each route works on tables
\* of its own, so each is run with the others' tables left empty
InitCapstone ==
    /\ app \in Revisions
    /\ NODE_ENV \in {"development", "production"}
    /\ HISTORY = {}
    /\ MESSAGE = {}
    /\ req = [p \in Slots |-> Idle]
    /\ resp = NoResponse
    /\ now = 0
    /\ accepted = 0
    /\ Soundboard = {}
    /\ bucket = {}

InitSoundboard ==
    /\ InitCapstone
    /\ history = {}
    /\ profile = {}
    /\ feedback = {}

NextSoundboard ==
    \/ \E p \in Slots, text \in TextInputs, ok \in BOOLEAN :
          CreateSoundboard(p, text, ok)
    \/ \E p \in Slots, ok \in BOOLEAN : CreateSoundboardUpload(p, ok)
    \/ \E p \in Slots : CreateSoundboardInsert(p)
    \/ Tick

SpecSoundboard == InitSoundboard /\ [][NextSoundboard]_vars

InitFeedback ==
    /\ InitCapstone
    /\ history = {}
    /\ profile = {}
    /\ feedback = {}

NextFeedback ==
    \/ \E p \in Slots, comment \in CommentInputs, rating \in Ratings :
          CreateFeedback(p, comment, rating)
    \/ Tick

SpecFeedback == InitFeedback /\ [][NextFeedback]_vars

\* the rows table history holds at start
HistorySeed(id) ==
    [id |-> id, title |-> "t", message |-> "m1", created_at |-> 0]

InitHistoryCapstone ==
    /\ InitCapstone
    /\ history \in {{}, {HistorySeed(1)}, {HistorySeed(1), HistorySeed(2)}}
    /\ profile = {}
    /\ feedback = {}

NextHistoryCapstone ==
    \/ \E p \in Slots, title \in TitleInputs, message \in MessageInputs :
          CreateHistoryCapstone(p, title, message)
    \/ \E p \in Slots : ListHistoryCapstone(p)
    \/ \E p \in Slots, id \in IdInputs : GetHistoryById(p, id)
    \/ Tick

SpecHistoryCapstone == InitHistoryCapstone /\ [][NextHistoryCapstone]_vars

\* nothing in the service inserts a profile row: the table is empty, or holds
\* the row a deployment has put there
ProfileSeed ==
    [id |-> 1, name |-> "lama", profile_picture_url |-> NullUrl,
     updated_at |-> 0]

InitProfile ==
    /\ InitCapstone
    /\ history = {}
    /\ profile \in {{}, {ProfileSeed}}
    /\ feedback = {}

NextProfile ==
    \/ \E p \in Slots, name \in NameInputs, file \in FileInputs,
          ok \in BOOLEAN : UpdateProfile(p, name, file, ok)
    \/ \E p \in Slots : UpdateProfileQuery(p)
    \/ \E p \in Slots : GetProfile(p)
    \/ Tick

SpecProfile == InitProfile /\ [][NextProfile]_vars

\* the requests one after the other: a request is accepted only when no
\* other is in flight
AllIdle == \A q \in Slots : req[q].pc = "idle"

NextSeq == (AllIdle /\ Accept) \/ Continue \/ Tick

SpecSeq == Init /\ [][NextSeq]_vars

\* ================================================================ claims
IdentityTable == IF app = "riwayat" THEN HISTORY ELSE history

\* C1: createIdentity, the requests run one after the other: for non-empty
\* title and email, when no row holds the email the INSERT answers 201 and
\* adds exactly one row for it (message and is_speech_to_text empty); when a
\* row holds the email the request answers 400 "Email sudah terdaftar" and
\* the tables stay as they are.
C1_CreateIdentityOnce ==
    [][\A p \in Slots :
        /\ \A email \in Emails, title \in Titles :
              (/\ WhereEmail(IdentityTable, email) # {}
               /\ CreateIdentity(p, email, title))
              => /\ resp'.op = "createIdentity"
                 /\ resp'.status = 400
                 /\ resp'.message = "Email sudah terdaftar"
                 /\ UNCHANGED <<HISTORY, MESSAGE, history>>
        /\ (/\ req[p].pc = "ci_insert"
            /\ WhereEmail(IdentityTable, req[p].email) = {}
            /\ CreateIdentityInsertRiwayat(p) \/ CreateIdentityInsertHistory(p))
           => /\ resp'.op = "createIdentity"
              /\ resp'.status = 201
              /\ IdentityTable \subseteq IdentityTable'
              /\ Cardinality(IdentityTable' \ IdentityTable) = 1
              /\ \A row \in IdentityTable' \ IdentityTable :
                    /\ row.email = req[p].email
                    /\ row.title = req[p].title
                    /\ app = "history" =>
                          row.message = NULL /\ row.is_speech_to_text = NULL
    ]_vars

\* C2: in every reachable state, whatever the interleaving of createIdentity,
\* attachMessage and delete requests, no two rows of the history table hold
\* the same email.
C2_OneIdentityPerEmail ==
    \A email \in Emails :
        /\ Cardinality(WhereEmail(HISTORY, email)) <= 1
        /\ Cardinality(WhereEmail(history, email)) <= 1

\* two createIdentity requests passed the existence check for one email; the
\* INSERT of the second was rejected and the row of the first is there
C2_Witness ==
    /\ app = "riwayat"
    /\ resp.op = "createIdentity"
    /\ resp.status = 500
    /\ resp.calls = <<"select", "insert">>
    /\ WhereEmail(HISTORY, resp.email) # {}

\* C3: attachMessage with a non-empty message and a defined
\* is_speech_to_text, for an email that no history row holds, answers 404 and
\* leaves the history and message tables as they are.
C3_AttachUnknownEmail ==
    [][\A p \in Slots, email \in Emails, message \in Messages,
          stt \in SttValues \cup {NULL} :
          (/\ WhereEmail(IdentityTable, email) = {}
           /\ \/ AttachMessageRiwayat(p, email, message, stt)
              \/ AttachMessageHistory(p, email, message, stt))
          => /\ resp'.op = "attachMessage"
             /\ resp'.email = email
             /\ resp'.status = 404
             /\ UNCHANGED <<HISTORY, MESSAGE, history>>
    ]_vars

C3_Witness ==
    /\ resp.op = "attachMessage"
    /\ resp.status = 404
    /\ WhereEmail(IdentityTable, resp.email) = {}
    /\ IdentityTable # {}

OtherEmails(table, email) == {r \in table : r.email # email}

\* C5: when DELETE /api/history/:email answers 200, no history row and no
\* message row with that email is left, and no call of the handler touches a
\* row of another email.
C5_DeleteRemovesRows ==
    [][\A p \in Slots :
        LET email == req[p].email IN
        (DeleteMessages(p) \/ DeleteHistoryRows(p))
        => /\ OtherEmails(HISTORY', email) = OtherEmails(HISTORY, email)
           /\ OtherEmails(MESSAGE', email) = OtherEmails(MESSAGE, email)
           /\ OtherEmails(history', email) = OtherEmails(history, email)
           /\ resp'.status = 200
              => /\ resp'.op = "delete"
                 /\ WhereEmail(HISTORY', email) = {}
                 /\ WhereEmail(MESSAGE', email) = {}
                 /\ WhereEmail(history', email) = {}
    ]_vars

C5_Witness ==
    /\ resp.op = "delete"
    /\ resp.status = 200
    /\ WhereEmail(IdentityTable, resp.email) = {}
    /\ IdentityTable # {}

\* C6: the delete of a history row and its messages is atomic: every call of
\* the DELETE handler leaves either the history row and all messages of the
\* email in place, or none of them.
C6_DeleteAtomic ==
    [][\A p \in Slots :
        LET email == req[p].email IN
        (DeleteMessages(p) \/ DeleteHistoryRows(p))
        => \/ /\ WhereEmail(HISTORY', email) = WhereEmail(HISTORY, email)
              /\ WhereEmail(MESSAGE', email) = WhereEmail(MESSAGE, email)
           \/ /\ WhereEmail(HISTORY', email) = {}
              /\ WhereEmail(MESSAGE', email) = {}
    ]_vars

\* C7: in every reachable state, whatever the interleaving of attachMessage
\* and delete requests, every row of the message table holds the email of a
\* history row.
C7_MessagesReferenceHistory ==
    \A m \in MESSAGE : WhereEmail(HISTORY, m.email) # {}

\* a delete ran between the existence check and the INSERT of an
\* attachMessage: the INSERT was rejected, no history row holds the email
C7_Witness ==
    /\ app = "riwayat"
    /\ resp.op = "attachMessage"
    /\ resp.status = 500
    /\ resp.calls = <<"select", "insert">>
    /\ WhereEmail(HISTORY, resp.email) = {}

\* C9: POST /api/soundboards runs synthesize, then the file-name generation,
\* then the upload, then the row insert; when synthesize or the upload fails
\* the request answers 500, ends, and the Soundboard table is as it was; a
\* Soundboard row is inserted only by a request whose upload has succeeded,
\* and its file is in the bucket.
C9_SoundboardAllOrNothing ==
    [][/\ \A p \in Slots :
            /\ \A text \in Texts :
                  CreateSoundboard(p, text, FALSE)
                  => /\ resp'.op = "createSoundboard"
                     /\ resp'.status = 500
                     /\ req'[p] = Idle
                     /\ UNCHANGED <<Soundboard, bucket>>
            /\ CreateSoundboardUpload(p, FALSE)
               => /\ resp'.op = "createSoundboard"
                  /\ resp'.status = 500
                  /\ req'[p] = Idle
                  /\ UNCHANGED <<Soundboard, bucket>>
       /\ Soundboard' # Soundboard
          => \E p \in Slots :
                /\ CreateSoundboardInsert(p)
                /\ req[p].calls = <<"synthesize", "uuidv4", "upload">>
                /\ req[p].fileName \in bucket
                /\ Soundboard \subseteq Soundboard'
                /\ \A row \in Soundboard' \ Soundboard :
                      /\ row.fileName = req[p].fileName
                      /\ row.text = req[p].text
                /\ resp'.status = 201
                /\ resp'.calls = <<"synthesize", "uuidv4", "upload", "insert">>
    ]_vars

\* an upload failed after an earlier request had created a row
C9_Witness ==
    /\ resp.op = "createSoundboard"
    /\ resp.status = 500
    /\ resp.calls = <<"synthesize", "uuidv4", "upload">>
    /\ Soundboard # {}
    /\ Cardinality(bucket) = Cardinality(Soundboard)

C8_ProfileSingleton ==
    [][(resp'.op = "updateProfile" /\ resp'.status = 200)
       => /\ Cardinality(profile') = 1
          /\ \A row \in profile' :
                /\ row.id = 1
                /\ row.name = resp'.data.row.name
                /\ resp'.data.row.profile_picture_url # NullUrl
                   => row.profile_picture_url =
                         resp'.data.row.profile_picture_url
    ]_vars

\* created_at of an entry of a listing
ListedCreatedAt(item) ==
    IF app = "history" THEN item.message[1].created_at ELSE item.created_at

\* C10: GET /api/history, the table holding n >= 1 rows: the response is 200
\* and its data is a list of n entries, one for each row of the table, by
\* created_at descending, in history.js and in both revisions of part_001.
C10_ListAllRows ==
    [][\A p \in Slots :
          ((ListHistory(p) \/ ListHistoryCapstone(p)) /\ history # {})
          => /\ resp'.op = "listAll"
             /\ resp'.status = 200
             /\ resp'.data.kind = "list"
             /\ Len(resp'.data.rows) = Cardinality(history)
             /\ {resp'.data.rows[i].id : i \in DOMAIN resp'.data.rows}
                   = {r.id : r \in history}
             /\ \A i, j \in DOMAIN resp'.data.rows :
                   i < j => ListedCreatedAt(resp'.data.rows[i])
                              >= ListedCreatedAt(resp'.data.rows[j])
    ]_vars

\* C11: in part_001, POST /api/history with non-empty title and message
\* answers 201 with a generated id, and a GET /api/history/:id with that id
\* then finds a row of that title and message; GET /api/history/:id answers
\* 200 with the row of the id when a row has it, and 404 when none has.
C11_HistoryRoundTrip ==
    [][\A p \in Slots :
          /\ \A title \in Titles, message \in Messages :
                CreateHistoryCapstone(p, title, message)
                => /\ resp'.status = 201
                   /\ WhereId(history, resp'.data.row.id) = {}
                   /\ \E row \in WhereId(history', resp'.data.row.id) :
                         row.title = title /\ row.message = message
          /\ \A id \in IdInputs :
                GetHistoryById(p, id)
                => IF WhereId(history, id) = {}
                   THEN resp'.status = 404
                   ELSE /\ resp'.status = 200
                        /\ resp'.data.row \in WhereId(history, id)
    ]_vars

\* the 400 responses that reject a request for what its body holds
ValidationRejected(r) ==
    /\ r.status = 400
    /\ \/ r.message \in {"Email dan title harus diisi",
                          "Title dan email harus diisi",
                          AttachValidationMessage,
                          "Judul dan pesan harus diisi",
                          "Komentar dan rating harus diisi",
                          "Rating harus antara 1-4",
                          "Name is required",
                          "Validation error"}
       \/ r.error = "Text is required"

\* C12: a request rejected with a validation 400 is answered before its
\* handler has made any database call, text-to-speech call or object-store
\* call.
C12_ValidationBeforeCalls ==
    ValidationRejected(resp) => resp.calls = <<>>

\* C13: a 500 response carries the message of the error behind it only when
\* NODE_ENV is development; otherwise its texts are generic ones.
C13_ErrorDetailOnlyInDevelopment ==
    (resp.status = 500 /\ NODE_ENV # "development")
    => /\ resp.message \in {"Internal server error", ""}
       /\ resp.error \in {"Something went wrong", "Failed to create soundboard"}

\* C14: PUT /api/profile with a file whose MIME type is not JPEG, PNG or JPG,
\* or whose size is over 5 MB, answers 400 and leaves the profile table and
\* the bucket as they are.
C14_BadFileRejected ==
    [][\A p \in Slots, name \in NameInputs, file \in Files, ok \in BOOLEAN :
          (/\ file.mimetype \notin allowedMimes \/ file.size > fileSize
           /\ UpdateProfile(p, name, file, ok))
          => /\ resp'.op = "updateProfile"
             /\ resp'.status = 400
             /\ UNCHANGED <<profile, bucket>>
    ]_vars

\* C15: history.js, attachMessage requests for one email running at once:
\* when the save of a request has been applied, the row of the email holds
\* the message, is_speech_to_text and created_at of that request, all three.
C15_LastWriteWins ==
    [][\A p \in Slots :
          AttachMessageSave(p)
          => \A row \in WhereEmail(history', req[p].email) :
                /\ row.message = req[p].inst.message
                /\ row.is_speech_to_text = req[p].inst.is_speech_to_text
                /\ row.created_at = req[p].inst.created_at
    ]_vars

\* id, title and email of the rows of an email
Identity(table, email) ==
    {[id |-> r.id, title |-> r.title, email |-> r.email] :
        r \in WhereEmail(table, email)}

\* C16: history.js, an attachMessage that answers 200: its step changes no
\* id, title or email of the row of that email, nor the number of rows, nor
\* any row of another email.
C16_AttachFrame ==
    [][\A p \in Slots, email \in Emails :
          (/\ resp'.status = 200
           /\ resp'.email = email
           /\ \/ AttachMessageSave(p)
              \/ \E message \in Messages, stt \in SttValues :
                    AttachMessageHistory(p, email, message, stt))
          => /\ Identity(history', email) = Identity(history, email)
             /\ Cardinality(history') = Cardinality(history)
             /\ OtherEmails(history', email) = OtherEmails(history, email)
    ]_vars

\* a save has overwritten the message of one row while the table holds a
\* row of another email
C16_Witness ==
    /\ app = "history"
    /\ resp.op = "attachMessage"
    /\ resp.status = 200
    /\ resp.calls = <<"select", "update">>
    /\ \E row \in WhereEmail(history, resp.email) : row.message = "m2"
    /\ OtherEmails(history, resp.email) # {}

\* C17: in every reachable state, the audioUrl of each Soundboard row is the
\* storage base URL, the bucket name and the fileName of that same row; the
\* fileName is a generated <uuid>.mp3 name whose object is in the bucket; no
\* two rows have one fileName.
C17_SoundboardUrlAndName ==
    /\ \A row \in Soundboard :
          /\ row.audioUrl = [base |-> "https://storage.googleapis.com",
                             bucket |-> "${process.env.GCP_BUCKET_NAME}",
                             filename |-> row.fileName]
          /\ row.fileName.ext = "mp3"
          /\ row.fileName.uuid # 0
          /\ row.fileName \in bucket
    /\ \A r1, r2 \in Soundboard : r1.fileName = r2.fileName => r1 = r2

\* two requests were in flight at once and both have created their row
C17_Witness ==
    /\ Cardinality(Soundboard) >= 2
    /\ \E r1, r2 \in Soundboard :
          r1.fileName.uuid + 1 = r2.fileName.uuid /\ r1.id > r2.id

\* C18: whenever PUT /api/profile answers 200, the name and the
\* profile_picture_url of the response data are those the profile row holds
\* right after the update.
C18_ResponseEqualsStoredProfile ==
    [][(resp'.op = "updateProfile" /\ resp'.status = 200)
       => \A row \in WhereId(profile', 1) :
             /\ row.name = resp'.data.row.name
             /\ row.profile_picture_url = resp'.data.row.profile_picture_url
    ]_vars

\* C19: history.js, whenever attachMessage answers 200 after its save, the
\* table holds a row of that email when the save completes (the claim adds:
\* holding the request's message), also when a DELETE of the email ran
\* between the handler's findOne and its save.
C19_SavedRowExists ==
    [][\A p \in Slots :
          (AttachMessageSave(p) /\ resp'.status = 200)
          => WhereEmail(history', req[p].email) # {}
    ]_vars
====
